---- MODULE Spec2Model ----
(***************************************************************************)
(* Model of the procedural dungeon generator PGMMapsProcGen (the later,    *)
(* multi-room revision, src/js/plugins/PGMMapsProcGen.js lines 112-426).   *)
(*                                                                         *)
(* One generateDungeon pass is a small state machine (pc): the entry       *)
(* reads and validates the three tile ids and fills layer 0, every         *)
(* iteration of the room-sampling while loop is one step, every iteration  *)
(* of the carving for loop is one step, the spawn/exit placement is one    *)
(* step and the return to the caller is one step.  JavaScript runs the     *)
(* handlers to completion, so no handler starts unless pc = "idle".        *)
(* Math.random() is a nondeterministic choice; the host's answers          *)
(* ($gameMap.tileId) are nondeterministic inputs.  The file also holds the *)
(* earlier single-room revision (lines 1-111); the later one is modelled.  *)
(***************************************************************************)
EXTENDS Integers, Sequences, FiniteSets

\* ---------------------------------------------------------------- bounds
\* Tile ids the host may return are 0..MaxTileId (0: missing).
MaxTileId == 3
\* Layers of the host's tile array that the model keeps.
NumLayers == 2
\* reserveTransfer calls the model follows.
MaxReserveCalls == 2
\* generateDungeon passes that get past the tile validation, per behaviour.
MaxGenerations == 2
\* Map sizes (width, height) the host may have loaded, for the whole plugin:
\* too small for a room, room for one room in one place, in three places.
MapSizes == {<<3, 3>>, <<7, 7>>, <<8, 7>>}
\* Map sizes of the sampling runs: too small for a room, the 10x10 scenario,
\* 7x11 (rooms up to 5x9), and 11x7 .. MaxSamplingMapWidth x 7 (rooms up to
\* 9x5; from 13x7 on there is room for two).
MaxSamplingMapWidth == 13
SamplingMapSizes ==
  {<<3, 3>>, <<10, 10>>, <<7, 11>>} \cup {<<w, 7>> : w \in 11 .. MaxSamplingMapWidth}
\* The map of the carving runs (area 300: three rooms), and the rooms these
\* start from: MIN_ROOM_SIZE high, MIN_ROOM_SIZE..CarveMaxRoomWidth wide,
\* corners 1, 1+CarveStride, ...
CarveMapWidth == 20
CarveMapHeight == 15
CarveMaxRoomWidth == 6
CarveStride == 6

\* ------------------------------------------------------ program constants
MIN_ROOM_SIZE == 5
MAX_ROOM_SIZE == 9
MAX_ATTEMPTS == 45
\* MAX_ROOM_ASPECT_RATIO = 1.8, kept as the fraction 9/5.
ASPECT_NUM == 9
ASPECT_DEN == 5
ROOM_GAP == 1
\* clamp(Math.floor(mapArea / 100), 2, 6)
AREA_PER_ROOM == 100
MIN_TARGET_ROOMS == 2
MAX_TARGET_ROOMS == 6
\* null of $gameMap._procGenExitX / _procGenExitY
Null == -1

TileIds == 0 .. MaxTileId

VARIABLES
  mapWidth, mapHeight,   \* $gameMap.width(), $gameMap.height()
  data,                  \* $gameMap.data(): flat tile array, index -> tile id
  playerX, playerY,      \* $gamePlayer position
  procGenExitX,          \* $gameMap._procGenExitX
  procGenExitY,          \* $gameMap._procGenExitY
  proGenExitX,           \* $gameMap._proGenExitX (the field line 382 writes)
  procGenNextFloor,      \* $gameMap._procGenNextFloor
  reserveCalls,          \* number of $gamePlayer.reserveTransfer calls so far
  pc,                    \* position inside generateDungeon, "idle" outside
  caller,                \* who called generateDungeon: "none", "command", "hook"
  wallId, floorId, doorId,
  rooms,                 \* const rooms = []
  numberOfAttempts,
  iterations,            \* while-loop iterations of this pass (history)
  carveIndex,            \* i of the carving for loop
  horizontalFirst,       \* the Math.random() < 0.5 outcomes of connectRooms (history)
  exitRoomIndex,         \* index (0-based) of exitRoom in rooms, Null before
  result,                \* which return of generateDungeon was taken
  refreshed,             \* refreshMap() was called in this pass
  generations            \* passes that got past the validation so far (history)

vars == <<mapWidth, mapHeight, data, playerX, playerY, procGenExitX,
          procGenExitY, proGenExitX, procGenNextFloor, reserveCalls, pc,
          caller, wallId, floorId, doorId, rooms, numberOfAttempts,
          iterations, carveIndex, horizontalFirst, exitRoomIndex, result,
          refreshed, generations>>

hostVars == <<mapWidth, mapHeight>>
exitVars == <<procGenExitX, procGenExitY, proGenExitX>>
localVars == <<wallId, floorId, doorId, rooms, numberOfAttempts, iterations,
               carveIndex, horizontalFirst, exitRoomIndex>>

\* ------------------------------------------------------------ arithmetic
Min(a, b) == IF a < b THEN a ELSE b
Max(a, b) == IF a > b THEN a ELSE b
Abs(a) == IF a < 0 THEN 0 - a ELSE a

clamp(value, a, b) == Max(a, Min(b, value))

\* Math.floor(x + width / 2) for integers x, width (width >= 0)
FloorHalfSum(x, width) == (2 * x + width) \div 2

Room(x, y, width, height) ==
  [x |-> x, y |-> y, width |-> width, height |-> height,
   centerX |-> FloorHalfSum(x, width), centerY |-> FloorHalfSum(y, height)]

\* isRoomsToClose without the gap: the plain intersection test
isRoomsToCloseNoGap(candidateRoom, existingRoom, gap) ==
  /\ candidateRoom.x < existingRoom.x + existingRoom.width
  /\ candidateRoom.x + candidateRoom.width > existingRoom.x
  /\ candidateRoom.y < existingRoom.y + existingRoom.height
  /\ candidateRoom.y + candidateRoom.height > existingRoom.y

isRoomsToClose(candidateRoom, existingRoom, gap) ==
  LET eXGapped == existingRoom.x - gap
      eYGapped == existingRoom.y - gap
      eWidthGapped == existingRoom.width + (gap * 2)
      eHeightGapped == existingRoom.height + (gap * 2)
  IN  /\ candidateRoom.x < eXGapped + eWidthGapped
      /\ candidateRoom.x + candidateRoom.width > eXGapped
      /\ candidateRoom.y < eYGapped + eHeightGapped
      /\ candidateRoom.y + candidateRoom.height > eYGapped

mapTileIndex(width, height, x, y, z) == (z * width * height) + (y * width) + x

\* setTile(layer, x, y, tileId) on the array d of a w x h map
setTile(d, w, h, layer, x, y, tileId) ==
  IF x < 0 \/ y < 0 \/ x >= w \/ y >= h
  THEN d
  ELSE LET index == mapTileIndex(w, h, x, y, layer)
       IN  IF index \in DOMAIN d THEN [d EXCEPT ![index] = tileId] ELSE d

\* The loops  for (y = y1; y <= y2; y++) for (x = x1; x <= x2; x++)
\* setTile(layer, x, y, tileId):  the entry at mapTileIndex(w, h, x, y, layer)
\* is written for every cell of the rectangle that passes setTile's bounds
\* check, i.e. every entry of the layer whose own x (index % w) and y lie in
\* the rectangle; writes outside the map are dropped.
setTilesRect(d, w, h, layer, x1, x2, y1, y2, tileId) ==
  [index \in DOMAIN d |->
     LET x == index % w
         y == (index \div w) % h
         z == index \div (w * h)
     IN  IF /\ z = layer
            /\ x1 <= x /\ x <= x2
            /\ y1 <= y /\ y <= y2
         THEN tileId
         ELSE d[index]]

\* getRandomInt(min, max): every value Math.floor(Math.random()*(max-min+1))+min takes
getRandomInt(min, max) == min .. max

\* ------------------------------------------------------------- carving
\* carveRoom with <= in place of < in both loops
carveRoomInclusive(d, w, h, room, tile) ==
  setTilesRect(d, w, h, 0, room.x, room.x + room.width,
               room.y, room.y + room.height, tile)

carveRoom(d, w, h, room, tile) ==
  setTilesRect(d, w, h, 0, room.x, room.x + room.width - 1,
               room.y, room.y + room.height - 1, tile)

carveHorizontalCorridor(d, w, h, x1, x2, y, tile) ==
  LET start == Min(x1, x2)
      end == Max(x1, x2)
  IN  setTilesRect(d, w, h, 0, start, end, y, y, tile)

carveVerticalCorridor(d, w, h, y1, y2, x, tile) ==
  LET start == Min(y1, y2)
      end == Max(y1, y2)
  IN  setTilesRect(d, w, h, 0, x, x, start, end, tile)

\* connectRooms whose second segment starts from the corner of the first one's
\* start: both segments leave roomA's centre
connectRoomsFromStart(d, w, h, roomA, roomB, tile, horizFirst) ==
  IF horizFirst
  THEN carveVerticalCorridor(
         carveHorizontalCorridor(d, w, h, roomA.centerX, roomB.centerX, roomA.centerY, tile),
         w, h, roomA.centerY, roomB.centerY, roomA.centerX, tile)
  ELSE carveHorizontalCorridor(
         carveVerticalCorridor(d, w, h, roomA.centerY, roomB.centerY, roomA.centerX, tile),
         w, h, roomA.centerX, roomB.centerX, roomA.centerY, tile)

\* connectRooms with the outcome of Math.random() < 0.5 given as horizFirst
connectRooms(d, w, h, roomA, roomB, tile, horizFirst) ==
  IF horizFirst
  THEN carveVerticalCorridor(
         carveHorizontalCorridor(d, w, h, roomA.centerX, roomB.centerX, roomA.centerY, tile),
         w, h, roomA.centerY, roomB.centerY, roomB.centerX, tile)
  ELSE carveHorizontalCorridor(
         carveVerticalCorridor(d, w, h, roomA.centerY, roomB.centerY, roomA.centerX, tile),
         w, h, roomA.centerX, roomB.centerX, roomB.centerY, tile)

\* ------------------------------------------------------ generateDungeon
\* the validation without its wallId === floorId test
TilesInvalidNoWallFloor(w, f, d) ==
  w = 0 \/ f = 0 \/ d = 0 \/ w = d \/ f = d

\* the validation of lines 268-271
TilesInvalid(w, f, d) ==
  w = 0 \/ f = 0 \/ d = 0 \/ w = f \/ w = d \/ f = d

dynamicTargetRooms(w, h) ==
  clamp((w * h) \div AREA_PER_ROOM, MIN_TARGET_ROOMS, MAX_TARGET_ROOMS)

\* for y, for x: setTile(0, x, y, wallId)
FillWalls(d, w, h, tile) == setTilesRect(d, w, h, 0, 0, w - 1, 0, h - 1, tile)

maxRoomWidth(w) == Min(MAX_ROOM_SIZE, w - 2)
maxRoomHeight(h) == Min(MAX_ROOM_SIZE, h - 2)

MapTooSmall(w, h) ==
  maxRoomWidth(w) < MIN_ROOM_SIZE \/ maxRoomHeight(h) < MIN_ROOM_SIZE

\* the aspect check with >= and <= in place of > and <
AspectRejectedInclusive(roomWidth, roomHeight) ==
  \/ roomWidth * ASPECT_DEN >= roomHeight * ASPECT_NUM
  \/ roomWidth * ASPECT_NUM <= roomHeight * ASPECT_DEN

\* aspect > MAX_ROOM_ASPECT_RATIO || aspect < 1 / MAX_ROOM_ASPECT_RATIO, with
\* aspect = roomWidth / roomHeight.  In exact arithmetic; the doubles of the
\* source agree with it for all widths and heights in 1..16 (9/5 is the double
\* 1.8, and 5/9 and 1/1.8 round to the same double).
AspectRejected(roomWidth, roomHeight) ==
  \/ roomWidth * ASPECT_DEN > roomHeight * ASPECT_NUM
  \/ roomWidth * ASPECT_NUM < roomHeight * ASPECT_DEN

\* the overlap loop never setting itIntersects
IntersectsNever(newRoom, rs) == FALSE

\* the for loop of lines 327-333
Intersects(newRoom, rs) ==
  \E i \in 1 .. Len(rs) : isRoomsToClose(newRoom, rs[i], ROOM_GAP)

\* the distance without Math.abs
ManhattanDistanceNoAbs(room, firstRoom) ==
  (room.centerX - firstRoom.centerX) + (room.centerY - firstRoom.centerY)

ManhattanDistance(room, firstRoom) ==
  Abs(room.centerX - firstRoom.centerX) + Abs(room.centerY - firstRoom.centerY)

\* the scan of lines 364-374 from (0-based) index i on; the result is the
\* 0-based index of exitRoom
RECURSIVE ExitScan(_, _, _, _)
ExitScan(rs, i, bestDistance, exitIdx) ==
  IF i >= Len(rs)
  THEN exitIdx
  ELSE LET distance == ManhattanDistance(rs[i + 1], rs[1])
       IN  IF distance > bestDistance
           THEN ExitScan(rs, i + 1, distance, i)
           ELSE ExitScan(rs, i + 1, bestDistance, exitIdx)

\* the scan with >= in place of >: the last of the farthest rooms wins
RECURSIVE ExitScanLastWins(_, _, _, _)
ExitScanLastWins(rs, i, bestDistance, exitIdx) ==
  IF i >= Len(rs)
  THEN exitIdx
  ELSE LET distance == ManhattanDistance(rs[i + 1], rs[1])
       IN  IF distance >= bestDistance
           THEN ExitScanLastWins(rs, i + 1, distance, i)
           ELSE ExitScanLastWins(rs, i + 1, bestDistance, exitIdx)

SelectExitLastWins(rs) ==
  IF Len(rs) > 1 THEN ExitScanLastWins(rs, 0, -1, Len(rs) - 1) ELSE Len(rs) - 1

\* lines 356-375: exitRoom starts as the last room; scanned when rooms.length > 1
SelectExit(rs) ==
  IF Len(rs) > 1 THEN ExitScan(rs, 0, -1, Len(rs) - 1) ELSE Len(rs) - 1

InitialData(w, h) ==
  [index \in 0 .. (NumLayers * w * h - 1) |-> index % (MaxTileId + 1)]

ClearedLocals ==
  /\ wallId' = 0 /\ floorId' = 0 /\ doorId' = 0
  /\ rooms' = <<>>
  /\ numberOfAttempts' = 0
  /\ iterations' = 0
  /\ carveIndex' = 0
  /\ horizontalFirst' = <<>>
  /\ exitRoomIndex' = Null

\* The state after the plugin is loaded and the host has loaded a map of `size`.
InitOn(size) ==
  /\ mapWidth = size[1]
  /\ mapHeight = size[2]
  /\ data = InitialData(size[1], size[2])
  /\ playerX = 0 /\ playerY = 0
  /\ procGenExitX = Null /\ procGenExitY = Null /\ proGenExitX = Null
  /\ procGenNextFloor = FALSE
  /\ reserveCalls = 0
  /\ pc = "idle"
  /\ caller = "none"
  /\ wallId = 0 /\ floorId = 0 /\ doorId = 0
  /\ rooms = <<>>
  /\ numberOfAttempts = 0
  /\ iterations = 0
  /\ carveIndex = 0
  /\ horizontalFirst = <<>>
  /\ exitRoomIndex = Null
  /\ result = "none"
  /\ refreshed = FALSE
  /\ generations = 0

Init == \E size \in MapSizes : InitOn(size)

\* generateDungeon, lines 254-300, called by `who`: the ids are read and
\* validated; a bad id returns, otherwise layer 0 is filled with walls.
GenerateBegin(who) ==
  /\ pc = "idle"
  /\ caller' = who
  /\ \E w \in TileIds, f \in TileIds, d \in TileIds :
       IF TilesInvalid(w, f, d)
       THEN /\ pc' = "done"
            /\ result' = "invalidTiles"
            /\ UNCHANGED <<data, localVars, generations>>
       ELSE /\ generations < MaxGenerations
            /\ generations' = generations + 1
            /\ wallId' = w /\ floorId' = f /\ doorId' = d
            /\ data' = FillWalls(data, mapWidth, mapHeight, w)
            /\ rooms' = <<>>
            /\ numberOfAttempts' = 0
            /\ iterations' = 0
            /\ pc' = "sampling"
            /\ result' = "none"
            /\ UNCHANGED <<carveIndex, horizontalFirst, exitRoomIndex>>
  /\ refreshed' = FALSE
  /\ UNCHANGED <<hostVars, playerX, playerY, exitVars, procGenNextFloor, reserveCalls>>

LoopCondition ==
  /\ Len(rooms) < dynamicTargetRooms(mapWidth, mapHeight)
  /\ numberOfAttempts < MAX_ATTEMPTS

\* one iteration of the while loop, lines 302-340, that does not break
SampleRoom ==
  /\ pc = "sampling"
  /\ LoopCondition
  /\ ~MapTooSmall(mapWidth, mapHeight)
  /\ iterations' = iterations + 1
  /\ \E roomWidth \in getRandomInt(MIN_ROOM_SIZE, maxRoomWidth(mapWidth)),
        roomHeight \in getRandomInt(MIN_ROOM_SIZE, maxRoomHeight(mapHeight)) :
       IF AspectRejected(roomWidth, roomHeight)
       THEN UNCHANGED <<rooms, numberOfAttempts>>            \* continue
       ELSE \E roomX \in getRandomInt(1, mapWidth - roomWidth - 1),
               roomY \in getRandomInt(1, mapHeight - roomHeight - 1) :
              LET newRoom == Room(roomX, roomY, roomWidth, roomHeight)
              IN  /\ rooms' = IF Intersects(newRoom, rooms)
                              THEN rooms
                              ELSE Append(rooms, newRoom)
                  /\ numberOfAttempts' = numberOfAttempts + 1
  /\ UNCHANGED <<hostVars, data, playerX, playerY, exitVars, procGenNextFloor,
                 reserveCalls, pc, caller, wallId, floorId, doorId, carveIndex,
                 horizontalFirst, exitRoomIndex, result, refreshed, generations>>

\* the loop ends (its condition fails, or the break of line 308); lines 342-346
EndSampling ==
  /\ pc = "sampling"
  /\ ~LoopCondition \/ MapTooSmall(mapWidth, mapHeight)
  /\ IF Len(rooms) = 0
     THEN /\ refreshed' = TRUE
          /\ result' = "noRooms"
          /\ pc' = "done"
     ELSE /\ pc' = "carving"
          /\ UNCHANGED <<refreshed, result>>
  /\ carveIndex' = 0
  /\ horizontalFirst' = <<>>
  /\ UNCHANGED <<hostVars, data, playerX, playerY, exitVars, procGenNextFloor,
                 reserveCalls, caller, wallId, floorId, doorId, rooms,
                 numberOfAttempts, iterations, exitRoomIndex, generations>>

\* one iteration of the for loop of lines 348-351
CarveStep ==
  /\ pc = "carving"
  /\ carveIndex < Len(rooms)
  /\ \E horizFirst \in BOOLEAN :
       /\ data' = connectRooms(
                    carveRoom(data, mapWidth, mapHeight, rooms[carveIndex + 1], floorId),
                    mapWidth, mapHeight, rooms[Len(rooms)], rooms[carveIndex + 1],
                    floorId, horizFirst)
       /\ horizontalFirst' = Append(horizontalFirst, horizFirst)
  /\ carveIndex' = carveIndex + 1
  /\ UNCHANGED <<hostVars, playerX, playerY, exitVars, procGenNextFloor,
                 reserveCalls, pc, caller, wallId, floorId, doorId, rooms,
                 numberOfAttempts, iterations, exitRoomIndex, result, refreshed,
                 generations>>

\* lines 354-390: exit selection, $gamePlayer.locate, the door, the exit
\* fields, refreshMap
PlaceSpawnAndExit ==
  /\ pc = "carving"
  /\ carveIndex = Len(rooms)
  /\ LET firstRoom == rooms[1]
         exitIdx == SelectExit(rooms)
         exitRoom == rooms[exitIdx + 1]
     IN  /\ exitRoomIndex' = exitIdx
         /\ playerX' = firstRoom.centerX
         /\ playerY' = firstRoom.centerY
         /\ procGenExitX' = Null
         /\ IF doorId # 0
            THEN /\ data' = setTile(data, mapWidth, mapHeight, 0,
                                    exitRoom.centerX, exitRoom.centerY, doorId)
                 /\ proGenExitX' = exitRoom.centerX
                 /\ procGenExitY' = exitRoom.centerY
            ELSE /\ procGenExitY' = Null
                 /\ UNCHANGED <<data, proGenExitX>>
  /\ refreshed' = TRUE
  /\ result' = "generated"
  /\ pc' = "done"
  /\ UNCHANGED <<hostVars, procGenNextFloor, reserveCalls, caller, wallId,
                 floorId, doorId, rooms, numberOfAttempts, iterations,
                 carveIndex, horizontalFirst, generations>>

\* generateDungeon returns to its caller; onMapLoaded then clears the flag
\* (line 410), pluginCommand does nothing more
GenerateReturn ==
  /\ pc = "done"
  /\ pc' = "idle"
  /\ caller' = "none"
  /\ procGenNextFloor' = IF caller = "hook" THEN FALSE ELSE procGenNextFloor
  /\ ClearedLocals
  /\ refreshed' = FALSE
  /\ UNCHANGED <<hostVars, data, playerX, playerY, exitVars, reserveCalls, result,
                 generations>>

\* markNextFloorAndTransfer without the early return of line 396
markNextFloorAndTransferNoGuard ==
  /\ pc = "idle"
  /\ reserveCalls < MaxReserveCalls
  /\ procGenNextFloor' = TRUE
  /\ reserveCalls' = reserveCalls + 1
  /\ UNCHANGED <<mapWidth, mapHeight, data, playerX, playerY, procGenExitX,
                 procGenExitY, proGenExitX, pc, caller, wallId, floorId, doorId,
                 rooms, numberOfAttempts, iterations, carveIndex,
                 horizontalFirst, exitRoomIndex, result, refreshed, generations>>

\* ------------------------------------------------------------- handlers
markNextFloorAndTransfer ==
  /\ pc = "idle"
  /\ IF procGenNextFloor
     THEN UNCHANGED <<procGenNextFloor, reserveCalls>>
     ELSE /\ reserveCalls < MaxReserveCalls
          /\ procGenNextFloor' = TRUE
          /\ reserveCalls' = reserveCalls + 1
  /\ UNCHANGED <<hostVars, data, playerX, playerY, exitVars, pc, caller,
                 localVars, result, refreshed, generations>>

\* Scene_Map.prototype.onMapLoaded, lines 405-412
onMapLoaded ==
  /\ pc = "idle"
  /\ IF procGenNextFloor
     THEN GenerateBegin("hook")
     ELSE UNCHANGED vars

\* String.prototype.toLowerCase on the sub-commands the model sends
toLowerCase(s) ==
  CASE s = "GenerateMap" -> "generatemap"
    [] s = "GENERATEMAP" -> "generatemap"
    [] OTHER -> s

Commands == {"ProcGen", "procgen", "Other"}
SubCommands == {"GenerateMap", "GENERATEMAP", "generatemap", "Generate", ""}

\* Game_Interpreter.prototype.pluginCommand, lines 415-425
pluginCommand ==
  /\ pc = "idle"
  /\ \E command \in Commands, arg \in SubCommands :
       IF command = "ProcGen" /\ toLowerCase(arg) = "generatemap"
       THEN GenerateBegin("command")
       ELSE UNCHANGED vars

Next ==
  \/ pluginCommand
  \/ markNextFloorAndTransfer
  \/ onMapLoaded
  \/ SampleRoom
  \/ EndSampling
  \/ CarveStep
  \/ PlaceSpawnAndExit
  \/ GenerateReturn

Spec == Init /\ [][Next]_vars

\* A pass right after the wall fill of lines 291-295, called by the plugin
\* command on a freshly loaded map of `size` with wall/floor/door ids 1/2/3:
\* the state GenerateBegin("command") leaves.
AfterFill(size) ==
  /\ mapWidth = size[1]
  /\ mapHeight = size[2]
  /\ wallId = 1 /\ floorId = 2 /\ doorId = 3
  /\ data = FillWalls(InitialData(size[1], size[2]), size[1], size[2], 1)
  /\ carveIndex = 0
  /\ horizontalFirst = <<>>
  /\ exitRoomIndex = Null
  /\ caller = "command"
  /\ playerX = 0 /\ playerY = 0
  /\ procGenExitX = Null /\ procGenExitY = Null /\ proGenExitX = Null
  /\ procGenNextFloor = FALSE
  /\ reserveCalls = 0
  /\ result = "none"
  /\ refreshed = FALSE
  /\ generations = 1

\* --------------------------------------------------- the sampling runs
\* One generateDungeon pass from the start of its sampling loop on.
InitSampling ==
  /\ \E size \in SamplingMapSizes : AfterFill(size)
  /\ rooms = <<>>
  /\ numberOfAttempts = 0
  /\ iterations = 0
  /\ pc = "sampling"

NextSampling ==
  \/ SampleRoom
  \/ EndSampling
  \/ CarveStep
  \/ PlaceSpawnAndExit
  \/ GenerateReturn

SpecSampling == InitSampling /\ [][NextSampling]_vars

\* ---------------------------------------------------- the carving runs
\* One generateDungeon pass from the end of its sampling loop on, on a map
\* with room for three rooms.  The room lists are those the loop can have
\* produced: every room is one SampleRoom accepts, in the order drawn.
CarveCorners(limit) == {c \in 1 .. limit : c % CarveStride = 1}

CarveRooms ==
  {Room(x, y, w, MIN_ROOM_SIZE) :
     x \in CarveCorners(CarveMapWidth), y \in CarveCorners(CarveMapHeight),
     w \in MIN_ROOM_SIZE .. CarveMaxRoomWidth}

Sampleable(w, h, room) ==
  /\ room.width \in getRandomInt(MIN_ROOM_SIZE, maxRoomWidth(w))
  /\ room.height \in getRandomInt(MIN_ROOM_SIZE, maxRoomHeight(h))
  /\ ~AspectRejected(room.width, room.height)
  /\ room.x \in getRandomInt(1, w - room.width - 1)
  /\ room.y \in getRandomInt(1, h - room.height - 1)

RECURSIVE SampledLists(_, _, _)
SampledLists(w, h, n) ==
  IF n = 0
  THEN {<<>>}
  ELSE LET shorter == SampledLists(w, h, n - 1)
       IN  shorter \cup
           {Append(p[1], p[2]) : p \in
              {q \in shorter \X {c \in CarveRooms : Sampleable(w, h, c)} :
                 /\ Len(q[1]) = n - 1
                 /\ ~Intersects(q[2], q[1])}}

InitCarve ==
  /\ AfterFill(<<CarveMapWidth, CarveMapHeight>>)
  /\ rooms \in {rs \in SampledLists(CarveMapWidth, CarveMapHeight,
                                      dynamicTargetRooms(CarveMapWidth, CarveMapHeight)) :
                  Len(rs) > 0}
  /\ numberOfAttempts = Len(rooms)
  /\ iterations = Len(rooms)
  /\ pc = "carving"

NextCarve ==
  \/ CarveStep
  \/ PlaceSpawnAndExit
  \/ GenerateReturn

SpecCarve == InitCarve /\ [][NextCarve]_vars

\* =================================================================
\* Properties
\* =================================================================
Generated == pc = "done" /\ result = "generated"

TileAt(x, y) == data[mapTileIndex(mapWidth, mapHeight, x, y, 0)]

MapCells == (0 .. (mapWidth - 1)) \X (0 .. (mapHeight - 1))

\* the box of a room grown by g tiles on all four sides
Expanded(room, g) ==
  [x |-> room.x - g, y |-> room.y - g,
   width |-> room.width + 2 * g, height |-> room.height + 2 * g]

BoxesIntersect(a, b) ==
  /\ a.x < b.x + b.width
  /\ b.x < a.x + a.width
  /\ a.y < b.y + b.height
  /\ b.y < a.y + a.height

InRoom(cell, room) ==
  /\ room.x <= cell[1] /\ cell[1] < room.x + room.width
  /\ room.y <= cell[2] /\ cell[2] < room.y + room.height

RoomCells(room) ==
  (room.x .. (room.x + room.width - 1)) \X (room.y .. (room.y + room.height - 1))

InSomeRoom(cell) == \E i \in 1 .. Len(rooms) : InRoom(cell, rooms[i])

Between(v, a, b) == Min(a, b) <= v /\ v <= Max(a, b)

\* the L-shaped corridor from the centre of a to the centre of b
OnCorridor(cell, a, b, horizFirst) ==
  IF horizFirst
  THEN \/ cell[2] = a.centerY /\ Between(cell[1], a.centerX, b.centerX)
       \/ cell[1] = b.centerX /\ Between(cell[2], a.centerY, b.centerY)
  ELSE \/ cell[1] = a.centerX /\ Between(cell[2], a.centerY, b.centerY)
       \/ cell[2] = b.centerY /\ Between(cell[1], a.centerX, b.centerX)

\* the corridors carved so far: the last room to room i, for every i done
OnSomeCorridor(cell) ==
  \E i \in 1 .. Len(horizontalFirst) :
    OnCorridor(cell, rooms[Len(rooms)], rooms[i], horizontalFirst[i])

ExitCell == <<rooms[exitRoomIndex + 1].centerX, rooms[exitRoomIndex + 1].centerY>>
SpawnCell == <<rooms[1].centerX, rooms[1].centerY>>

\* ----------------------------------------------------------------- C1
\* C1 as stated: the boxes of any two accepted rooms, BOTH grown by ROOM_GAP
\* on all sides, do not intersect.
C1_BothExpandedDisjoint ==
  \A i \in 1 .. Len(rooms) : \A j \in 1 .. Len(rooms) :
    i # j => ~BoxesIntersect(Expanded(rooms[i], ROOM_GAP), Expanded(rooms[j], ROOM_GAP))

\* C1 (amended): for any two distinct accepted rooms R and S, the box of R
\* grown by ROOM_GAP on all four sides does not intersect the box of S itself:
\* at least ROOM_GAP tiles lie between the two rooms.
C1_GapSeparated ==
  \A i \in 1 .. Len(rooms) : \A j \in 1 .. Len(rooms) :
    i # j => ~BoxesIntersect(Expanded(rooms[i], ROOM_GAP), rooms[j])

\* two accepted rooms exactly ROOM_GAP apart
C1_Witness ==
  /\ Len(rooms) = 2
  /\ rooms[2].x = rooms[1].x + rooms[1].width + ROOM_GAP

\* ----------------------------------------------------------------- C2
\* C2: after a pass that placed a room, on layer 0 every cell in no room and on
\* no corridor holds the wall id, and every cell of a room holds the floor id,
\* except the exit room's centre, which holds the door id.
C2_TilesAfterRun ==
  Generated =>
    \A cell \in MapCells :
      IF InSomeRoom(cell)
      THEN TileAt(cell[1], cell[2]) = (IF cell = ExitCell THEN doorId ELSE floorId)
      ELSE ~OnSomeCorridor(cell) => TileAt(cell[1], cell[2]) = wallId

\* three rooms, and a corridor that leaves the rooms
C2_Witness ==
  /\ Generated
  /\ Len(rooms) = 3
  /\ \E cell \in MapCells : OnSomeCorridor(cell) /\ ~InSomeRoom(cell)

\* ----------------------------------------------------------------- C3
ScenarioADone ==
  /\ pc = "done"
  /\ result # "invalidTiles"
  /\ mapWidth = 10 /\ mapHeight = 10

\* C3 as stated: on the 10x10 map with valid ids the pass places exactly two
\* rooms, spawns at room 0's centre and puts the door at the other room's centre.
C3_TwoRoomsPlaced ==
  ScenarioADone =>
    /\ dynamicTargetRooms(mapWidth, mapHeight) = 2
    /\ Len(rooms) = 2
    /\ result = "generated"
    /\ playerX = rooms[1].centerX /\ playerY = rooms[1].centerY
    /\ exitRoomIndex = 1
    /\ TileAt(rooms[2].centerX, rooms[2].centerY) = doorId

\* C3 (amended): on the 10x10 map with valid ids the target is 2, but the pass
\* places exactly one room and uses all MAX_ATTEMPTS attempts; the player
\* spawns at that room's centre, where the door id is written too.
C3_OneRoomPlaced ==
  /\ (mapWidth = 10 /\ mapHeight = 10) => Len(rooms) <= 1
  /\ ScenarioADone =>
       /\ dynamicTargetRooms(mapWidth, mapHeight) = 2
       /\ Len(rooms) = 1
       /\ numberOfAttempts = MAX_ATTEMPTS
       /\ result = "generated"
       /\ playerX = rooms[1].centerX /\ playerY = rooms[1].centerY
       /\ exitRoomIndex = 0
       /\ TileAt(rooms[1].centerX, rooms[1].centerY) = doorId

C3_Witness == ScenarioADone /\ result = "generated" /\ Len(rooms) = 1

\* ----------------------------------------------------------------- C4
\* C4: every iteration of the sampling loop increments numberOfAttempts or
\* ends the loop, so a pass runs at most MAX_ATTEMPTS iterations.
C4_AttemptsBoundIterations ==
  /\ [](iterations <= MAX_ATTEMPTS /\ iterations = numberOfAttempts)
  /\ [][pc = "sampling" =>
          \/ numberOfAttempts' = numberOfAttempts + 1
          \/ pc' # "sampling"]_vars
  /\ [](pc = "sampling" => ENABLED (SampleRoom \/ EndSampling))

\* the whole budget was used, and a room of the extreme aspect ratio was accepted
C4_Witness ==
  /\ pc = "sampling"
  /\ iterations = MAX_ATTEMPTS
  /\ \E i \in 1 .. Len(rooms) :
       \/ rooms[i].width * ASPECT_DEN = rooms[i].height * ASPECT_NUM
       \/ rooms[i].width * ASPECT_NUM = rooms[i].height * ASPECT_DEN

\* ----------------------------------------------------------------- C5
\* C5: while _procGenNextFloor is set no step reserves a transfer; a pass
\* called by onMapLoaded starts only with the flag set, the flag stays set
\* during it, and the flag is cleared only by the step that follows the return
\* of that pass (whatever its result).
C5_NextFloorGuard ==
  /\ [][procGenNextFloor => reserveCalls' = reserveCalls]_vars
  /\ [][(caller # "hook" /\ caller' = "hook") => (procGenNextFloor /\ pc = "idle")]_vars
  /\ [](caller = "hook" => procGenNextFloor)
  /\ [][(procGenNextFloor /\ ~procGenNextFloor') =>
          (caller = "hook" /\ pc = "done" /\ pc' = "idle" /\ caller' = "none")]_vars
  /\ [][(pc = "idle" /\ ~procGenNextFloor) => caller' # "hook"]_vars
  /\ [][(caller = "hook" /\ pc = "done") => (pc' = "idle" /\ ~procGenNextFloor')]_vars

\* a second next-floor pass (the first one cleared the flag), which aborted
C5_Witness ==
  /\ caller = "hook"
  /\ pc = "done"
  /\ result = "invalidTiles"
  /\ procGenNextFloor
  /\ reserveCalls > 1

\* ----------------------------------------------------------------- C6
\* C6: after a pass that placed a room, _procGenExitX and _procGenExitY are
\* the exit room's centre.
C6_ExitRecorded ==
  Generated =>
    /\ procGenExitX = rooms[exitRoomIndex + 1].centerX
    /\ procGenExitY = rooms[exitRoomIndex + 1].centerY

\* ----------------------------------------------------------------- C7
Passable(cell) ==
  /\ cell \in MapCells
  /\ TileAt(cell[1], cell[2]) \in {floorId, doorId}

Neighbours(cell) ==
  {<<cell[1] + 1, cell[2]>>, <<cell[1] - 1, cell[2]>>,
   <<cell[1], cell[2] + 1>>, <<cell[1], cell[2] - 1>>}

\* the cells reached from `frontier` over passable 4-neighbours
RECURSIVE Reach(_, _)
Reach(frontier, visited) ==
  IF frontier = {}
  THEN visited
  ELSE LET next == {n \in UNION {Neighbours(c) : c \in frontier} :
                      n \notin visited /\ Passable(n)}
       IN  Reach(next, visited \cup next)

ReachableFromSpawn ==
  IF Passable(SpawnCell) THEN Reach({SpawnCell}, {SpawnCell}) ELSE {}

\* the cells between the centres of a and b (on the map or not)
CorridorBox(a, b) ==
  (Min(a.centerX, b.centerX) .. Max(a.centerX, b.centerX)) \X
  (Min(a.centerY, b.centerY) .. Max(a.centerY, b.centerY))

\* C7: after a pass that placed a room, every cell of every room is reached
\* from the spawn cell over 4-neighbour floor or door cells, and every cell of
\* every corridor lies on the map and holds the floor or door id.
C7_RoomsConnected ==
  Generated =>
    LET reached == ReachableFromSpawn
    IN  /\ \A i \in 1 .. Len(rooms) : RoomCells(rooms[i]) \subseteq reached
        /\ \A i \in 1 .. Len(rooms) :
             \A cell \in CorridorBox(rooms[Len(rooms)], rooms[i]) :
               OnCorridor(cell, rooms[Len(rooms)], rooms[i], horizontalFirst[i])
                 => cell \in reached

\* three rooms, the hub off both axes of the first room, each orientation used
C7_Witness ==
  /\ Generated
  /\ Len(rooms) = 3
  /\ rooms[3].centerX # rooms[1].centerX
  /\ rooms[3].centerY # rooms[1].centerY
  /\ horizontalFirst[1] /\ ~horizontalFirst[2]

\* ----------------------------------------------------------------- C8
IdsUsable(w, f, d) == w # 0 /\ f # 0 /\ d # 0 /\ w # f /\ w # d /\ f # d

\* C8: a pass goes on past the validation only with three non-zero, pairwise
\* distinct ids; a call that does not, returns with every tile of every layer
\* and the player where they were and no refresh requested.
C8_InvalidTilesNoWrite ==
  /\ []((pc \in {"sampling", "carving"} \/ (pc = "done" /\ result # "invalidTiles"))
          => IdsUsable(wallId, floorId, doorId))
  /\ [][(pc = "idle" /\ pc' # "idle") =>
          \/ pc' = "sampling"
          \/ /\ pc' = "done" /\ result' = "invalidTiles"
             /\ data' = data /\ playerX' = playerX /\ playerY' = playerY
             /\ ~refreshed']_vars
  /\ [][(pc = "done" /\ result = "invalidTiles") =>
          (data' = data /\ playerX' = playerX /\ playerY' = playerY /\ ~refreshed')]_vars

\* an aborted call on a map an earlier pass had generated
C8_Witness ==
  /\ pc = "done"
  /\ result = "invalidTiles"
  /\ generations > 0
  /\ \E index \in DOMAIN data : data[index] # InitialData(mapWidth, mapHeight)[index]

\* ----------------------------------------------------------------- C9
Distance(i) ==
  Abs(rooms[i].centerX - rooms[1].centerX) + Abs(rooms[i].centerY - rooms[1].centerY)

\* C9: with more than one room the exit room is the one of lowest index among
\* those at maximal Manhattan distance from the first room's centre; with one
\* room it is that room.
C9_FarthestFirstIndex ==
  Generated =>
    IF Len(rooms) > 1
    THEN /\ \A j \in 1 .. Len(rooms) : Distance(j) <= Distance(exitRoomIndex + 1)
         /\ \A j \in 1 .. exitRoomIndex : Distance(j) < Distance(exitRoomIndex + 1)
    ELSE exitRoomIndex = 0

\* two rooms tie for the maximal distance
C9_Witness ==
  /\ Generated
  /\ Len(rooms) = 3
  /\ Distance(2) = Distance(3)
  /\ exitRoomIndex = 1

\* ---------------------------------------------------------------- C10
\* C10: with two or more rooms the exit room is not the first room, the door
\* cell differs from the spawn cell and the player stands on a floor tile; the
\* door is on the spawn cell only when exactly one room was placed.
C10_ExitNotSpawn ==
  Generated =>
    /\ playerX = SpawnCell[1] /\ playerY = SpawnCell[2]
    /\ Len(rooms) >= 2 =>
         /\ exitRoomIndex # 0
         /\ ExitCell # <<playerX, playerY>>
         /\ TileAt(ExitCell[1], ExitCell[2]) = doorId
         /\ TileAt(playerX, playerY) = floorId
    /\ TileAt(playerX, playerY) = doorId <=> Len(rooms) = 1

\* two rooms whose centres share a row, the exit being the second
C10_Witness ==
  /\ Generated
  /\ Len(rooms) = 2
  /\ rooms[1].centerY = rooms[2].centerY
  /\ exitRoomIndex = 1

====
